---- MODULE Spec2Model ----
(***************************************************************************)
(* The notebook "2-advanced, part 1.ipynb": twelve code cells run by one   *)
(* Python kernel.  The cells load a corpus (cophi), select the most        *)
(* frequent words and the hapax legomena, drop them from the document-term *)
(* matrix, fit an LDA model through MALLET (dariah) and visualise it.      *)
(*                                                                         *)
(* The state is the kernel: its queue of cells, the cell being executed    *)
(* and the statement it is at, the execution counter, the namespace and    *)
(* the values bound in it, the outputs of the cells, the error that        *)
(* stopped the run, and the MALLET subprocess.  The corpus directory and   *)
(* the MALLET executable are the environment, fixed by Init.               *)
(*                                                                         *)
(* cophi and dariah are third-party packages: their bodies are not part    *)
(* of the notebook.  Their operators below follow what the notebook        *)
(* documents and records about them.                                       *)
(***************************************************************************)
EXTENDS Integers, Sequences, FiniteSets, TLC

\* ------------------------------------------------------------------ bounds

\* Stop words: word types more frequent than every other type.
BulkWords == 49
\* Word types that, in a corpus that has them, occur as often as there are
\* documents: once in every document, or all in one document.
MidWords == 8
\* Word types that occur once, in one document.
RareWords == 11
\* The other word types, whose counts vary over the corpora checked.
FreeWords == 2
\* The largest count of one of the other types in one document.
MaxCount == 1
\* The outcomes of the sampler told apart (its random seed).
Seeds == 2
\* The documents of the corpus (file names in the corpus directory).
Docs == {"d1", "d2"}

\* --------------------------------------------------------------- constants

\* cells with an execution_count, in document order
NumCells == 12
\* corpus.mfw(50)
MfwN == 50
\* dariah.core.LDA(num_topics=10, ...)
NumTopics == 10
\* dariah.core.LDA(..., num_iterations=1000, ...)
NumIterations == 1000
\* alpha=0.1 and eta=0.01 of the model's repr, in thousandths
DefaultAlpha == 100
DefaultEta == 10
\* the first ten of a list, the first five columns of a table
ListShown == 10
ColsShown == 5
\* a missing value of a pandas table (the value .fillna(0) replaces)
NaN == -1

\* ------------------------------------------------------------------- words

NumWords == BulkWords + MidWords + RareWords + FreeWords
Words == 1..NumWords
Bulk == 1..BulkWords
Mid == (BulkWords + 1)..(BulkWords + MidWords)
Rare == (BulkWords + MidWords + 1)..(BulkWords + MidWords + RareWords)
Free == (BulkWords + MidWords + RareWords + 1)..NumWords
\* A stop word occurs this often in every document.
BulkCount == MaxCount + 1

Min(a, b) == IF a <= b THEN a ELSE b

\* The words of S in alphabetical (index) order.
SortedSeq(S) == SelectSeq([i \in 1..NumWords |-> i], LAMBDA w: w \in S)

Range(s) == {s[i] : i \in 1..Len(s)}

\* Python's s[:n]
Take(s, n) == SubSeq(s, 1, Min(n, Len(s)))

RECURSIVE SumOver(_, _)
SumOver(f, S) ==
    IF S = {} THEN 0
    ELSE LET x == CHOOSE y \in S: TRUE IN f[x] + SumOver(f, S \ {x})

\* ----------------------------------------------------- cophi (third party)

\* A table: its column labels in order, its row labels, its entries.
EmptyTable == [columns |-> <<>>, index |-> {}, data |-> [d \in {} |-> <<>>]]

\* corpus.dtm of the corpus read from files with the token counts `counts`:
\* one row per document, one column per word type that occurs at all; the
\* entry of a word absent from a document is missing.
CorpusDtm(counts) ==
    LET types == {w \in Words: \E d \in Docs: counts[d][w] > 0}
    IN [columns |-> SortedSeq(types),
        index |-> Docs,
        data |-> [d \in Docs |-> [w \in types |->
                    IF counts[d][w] > 0 THEN counts[d][w] ELSE NaN]]]

\* cophi.corpus(directory, ...)
CophiCorpus(counts) == [dtm |-> CorpusDtm(counts)]

Columns(t) == Range(t.columns)

Count(t, d, w) == IF t.data[d][w] = NaN THEN 0 ELSE t.data[d][w]

\* Total frequency of w over all documents.
Freq(t, w) == SumOver([d \in t.index |-> Count(t, d, w)], t.index)

\* corpus.hapax: the word types occurring exactly once in the corpus.
Hapax(corpus) ==
    SortedSeq({w \in Columns(corpus.dtm): Freq(corpus.dtm, w) = 1})

MaxFreq == Cardinality(Docs) * BulkCount

RECURSIVE RankedFrom(_, _)
RankedFrom(t, f) ==
    IF f = 0 THEN <<>>
    ELSE SortedSeq({w \in Columns(t): Freq(t, w) = f}) \o RankedFrom(t, f - 1)

\* The word types by decreasing total frequency.
Ranked(t) == RankedFrom(t, MaxFreq)

\* The subsets of S with k elements.
RECURSIVE KSubsets(_, _)
KSubsets(S, k) ==
    IF k = 0 THEN {{}}
    ELSE IF Cardinality(S) < k THEN {}
    ELSE LET x == CHOOSE y \in S: TRUE
         IN {X \cup {x}: X \in KSubsets(S \ {x}, k - 1)}
            \cup KSubsets(S \ {x}, k)

\* corpus.mfw(n): the n most frequent word types, most frequent first.
\* Which of several equally frequent types make the cut is not fixed.
Mfw(corpus, n) ==
    LET t == corpus.dtm
        ranked == Ranked(t)
        k == Min(n, Len(ranked))
        cut == IF k = 0 THEN 0 ELSE Freq(t, ranked[k])
        sure == {w \in Columns(t): Freq(t, w) > cut}
        tied == {w \in Columns(t): Freq(t, w) = cut}
        need == k - Cardinality(sure)
        picks == IF need = Cardinality(tied) THEN {tied}
                 ELSE KSubsets(tied, need)
    IN {SelectSeq(ranked, LAMBDA w: w \in sure \cup X): X \in picks}

\* corpus.drop(dtm, features): dtm without the columns named in features.
Drop(t, feats) ==
    LET keep == Columns(t) \ Range(feats)
    IN [columns |-> SelectSeq(t.columns, LAMBDA w: w \in keep),
        index |-> t.index,
        data |-> [d \in t.index |-> [w \in keep |-> t.data[d][w]]]]

\* DataFrame.fillna(0)
FillNa(t) ==
    [t EXCEPT !.data = [d \in t.index |-> [w \in DOMAIN t.data[d] |->
                          IF t.data[d][w] = NaN THEN 0 ELSE t.data[d][w]]]]

\* DataFrame.astype(int): the entries are already whole numbers here.
AsTypeInt(t) == t

\* DataFrame.iloc[:, :n]
ILocCols(t, n) ==
    LET cols == Take(t.columns, n)
    IN [columns |-> cols,
        index |-> t.index,
        data |-> [d \in t.index |-> [w \in Range(cols) |-> t.data[d][w]]]]

\* ---------------------------------------------------- dariah (third party)

NoModel ==
    [num_topics |-> 0, num_iterations |-> 0, alpha |-> 0, eta |-> 0,
     mallet |-> "", fitted |-> FALSE, vocabulary |-> <<>>,
     topics |-> EmptyTable]

\* dariah.core.LDA(**kw): the options given are kept as given, alpha and eta
\* take their defaults.
LDA(kw) ==
    [num_topics |-> kw.num_topics, num_iterations |-> kw.num_iterations,
     alpha |-> DefaultAlpha, eta |-> DefaultEta,
     mallet |-> kw.mallet, fitted |-> FALSE, vocabulary |-> <<>>,
     topics |-> EmptyTable]

\* model.topics of a model with num_topics topics fitted to the words
\* vocab: rows topic0, topic1, ..., columns word0, word1, ..., each row the
\* words in the order of their weight in that topic.  The order is the
\* sampler's; the outcomes covered differ by a rotation of the words.
Topics(num_topics, vocab, seed) ==
    LET n == Len(vocab) IN
    [columns |-> [j \in 1..n |-> j - 1],
     index |-> 0..(num_topics - 1),
     data |-> [i \in 0..(num_topics - 1) |->
                 [c \in 0..(n - 1) |-> vocab[((c + i + seed) % n) + 1]]]]

\* <Model: LDA, 10 topics, 1000 iterations, alpha=0.1, eta=0.01>
Repr(m) == <<m.num_topics, m.num_iterations, m.alpha, m.eta>>

NoVis == [model |-> NoModel]

\* dariah.core.Vis(model)
Vis(m) == [model |-> m]

\* ------------------------------------------------------------------ kernel

VARIABLES
    env,              \* the corpus directory and the MALLET executable
    queue,            \* cells submitted and not yet started
    running,          \* cells being executed
    stmt,             \* the statement each running cell is at (0: not running)
    counter,          \* the kernel's execution counter
    execution_count,  \* the execution_count of each cell (0: never run)
    error,            \* the exception that stopped the run
    raised,           \* the exceptions library calls raised, in order
    outputs,          \* the outputs of each cell
    namespace,        \* the names bound in the kernel
    directory, corpus, mfw, features, dtm, model, vis,
    mallet_proc       \* a MALLET subprocess is alive

values == <<directory, corpus, mfw, features, dtm, model, vis>>
sched == <<queue, running, stmt, error>>
vars == <<env, queue, running, stmt, counter, execution_count, error, raised,
          outputs, namespace, directory, corpus, mfw, features, dtm, model,
          vis, mallet_proc>>

Cells == 1..NumCells

\* "Run All": the code cells in document order.
RunAll == [i \in 1..NumCells |-> i]

NoError == [cell |-> 0, exc |-> [origin |-> "", cause |-> ""]]
NameError == [origin |-> "python", cause |-> "NameError"]
AttributeError == [origin |-> "python", cause |-> "AttributeError"]
MissingCorpus == [origin |-> "cophi", cause |-> "missing corpus"]
MalformedInput == [origin |-> "cophi", cause |-> "malformed input"]
MissingMallet == [origin |-> "dariah", cause |-> "missing executable"]
MalletFailed == [origin |-> "dariah", cause |-> "malformed input"]

\* One output of a cell.
Out(kind, words, nums, table) ==
    [kind |-> kind, words |-> words, nums |-> nums, table |-> table]

\* The document the words of Rare occur in.
RareDoc == CHOOSE d \in Docs: TRUE

\* The token counts the files of a corpus directory can hold: every stop
\* word BulkCount times in every document, the words of Mid (if the corpus
\* has them) once in every document or, every second of them, as many times
\* in one document only, the words of Rare once in one document, any other
\* word up to MaxCount times in each document.
Corpora ==
    {[d \in Docs |-> [w \in Words |->
        IF w \in Bulk THEN BulkCount
        ELSE IF w \in Mid THEN
            (IF ~mid THEN 0
             ELSE IF w % 2 = 0 THEN 1
             ELSE IF d = RareDoc THEN Cardinality(Docs) ELSE 0)
        ELSE IF w \in Rare THEN (IF d = RareDoc THEN 1 ELSE 0)
        ELSE f[d][w]]]:
        f \in [Docs -> [Free -> 0..MaxCount]], mid \in BOOLEAN}

NoCounts == [d \in Docs |-> [w \in Words |-> 0]]

Envs ==
    {[corpus_dir |-> "ok", mallet_exe |-> m, counts |-> c]:
        m \in BOOLEAN, c \in Corpora}
    \cup {[corpus_dir |-> s, mallet_exe |-> m, counts |-> NoCounts]:
            s \in {"missing", "malformed"}, m \in BOOLEAN}

Init ==
    /\ env \in Envs
    /\ queue = RunAll
    /\ running = {}
    /\ stmt = [c \in Cells |-> 0]
    /\ counter = 0
    /\ execution_count = [c \in Cells |-> 0]
    /\ error = NoError
    /\ raised = <<>>
    /\ outputs = [c \in Cells |-> <<>>]
    /\ namespace = {}
    /\ directory = ""
    /\ corpus = [dtm |-> EmptyTable]
    /\ mfw = <<>>
    /\ features = <<>>
    /\ dtm = EmptyTable
    /\ model = NoModel
    /\ vis = NoVis
    /\ mallet_proc = FALSE

\* Changed: the kernel starts a request while another is being executed.
KernelIdle_ignored == TRUE

\* The kernel executes one request at a time.
KernelIdle == running = {}

\* The kernel starts the next cell of the queue.
Execute ==
    /\ queue # <<>>
    /\ KernelIdle
    /\ LET c == Head(queue) IN
        /\ queue' = Tail(queue)
        /\ running' = running \cup {c}
        /\ stmt' = [stmt EXCEPT ![c] = 1]
        /\ counter' = counter + 1
        /\ execution_count' = [execution_count EXCEPT ![c] = counter + 1]
    /\ UNCHANGED <<env, error, raised, outputs, namespace, values, mallet_proc>>

\* Cell c goes on to its statement s.
Advance(c, s) ==
    /\ stmt' = [stmt EXCEPT ![c] = s]
    /\ UNCHANGED <<queue, running, error>>

\* Cell c ends normally.
Complete(c) ==
    /\ stmt' = [stmt EXCEPT ![c] = 0]
    /\ running' = running \ {c}
    /\ UNCHANGED <<queue, error>>

\* Cell c ends with the exception exc, which stops the run.
Fail(c, exc) ==
    /\ stmt' = [stmt EXCEPT ![c] = 0]
    /\ running' = running \ {c}
    /\ queue' = <<>>
    /\ error' = [cell |-> c, exc |-> exc]

\* Changed: the cell catches the exception and ends normally.
OnRaise_caught(c, exc) ==
    /\ raised' = Append(raised, exc)
    /\ Complete(c)
    /\ UNCHANGED <<outputs, namespace, values>>

\* A library call in cell c raises exc.  No cell has a try statement: the
\* exception ends the cell and nothing is bound or shown.
OnRaise(c, exc) ==
    /\ raised' = Append(raised, exc)
    /\ Fail(c, exc)
    /\ UNCHANGED <<outputs, namespace, values>>

\* The cell shows one more output.
Show(c, o) == outputs' = [outputs EXCEPT ![c] = Append(@, o)]

\* Statement s of cell c, which reads the names `reads`: a name not bound
\* raises NameError, otherwise the statement does `body`.
Stmt(c, s, reads, body) ==
    /\ c \in running
    /\ stmt[c] = s
    /\ UNCHANGED <<env, counter, execution_count>>
    /\ IF reads \subseteq namespace
       THEN body
       ELSE /\ Fail(c, NameError)
            /\ UNCHANGED <<raised, outputs, namespace, values, mallet_proc>>

\* ------------------------------------------------------------------- cells

\* In [1]: from pathlib import Path; import dariah; import cophi
Cell1_import ==
    Stmt(1, 1, {},
         /\ namespace' = namespace \cup {"Path", "dariah", "cophi"}
         /\ Complete(1)
         /\ UNCHANGED <<raised, outputs, values, mallet_proc>>)

\* In [2]: directory = Path("data", "british-fiction-corpus")
Cell2_directory ==
    Stmt(2, 1, {"Path"},
         /\ directory' = "data/british-fiction-corpus"
         /\ namespace' = namespace \cup {"directory"}
         /\ Complete(2)
         /\ UNCHANGED <<raised, outputs, corpus, mfw, features, dtm, model, vis,
                        mallet_proc>>)

\* In [3]: corpus = cophi.corpus(directory, lowercase=True, ...)
Cell3_corpus ==
    Stmt(3, 1, {"cophi", "directory"},
         /\ IF env.corpus_dir = "missing" THEN OnRaise(3, MissingCorpus)
            ELSE IF env.corpus_dir = "malformed" THEN OnRaise(3, MalformedInput)
            ELSE /\ corpus' = CophiCorpus(env.counts)
                 /\ namespace' = namespace \cup {"corpus"}
                 /\ Complete(3)
                 /\ UNCHANGED <<raised, outputs, directory, mfw, features, dtm,
                                model, vis>>
         /\ UNCHANGED mallet_proc)

\* In [4], first line: mfw = corpus.mfw(50)
Cell4_mfw ==
    Stmt(4, 1, {"corpus"},
         /\ \E l \in Mfw(corpus, MfwN): mfw' = l
         /\ namespace' = namespace \cup {"mfw"}
         /\ Advance(4, 2)
         /\ UNCHANGED <<raised, outputs, directory, corpus, features, dtm, model,
                        vis, mallet_proc>>)

\* Changed: mfw = mfw[:10], the slice is bound instead of shown.
Cell4_show_truncating ==
    Stmt(4, 2, {"mfw"},
         /\ mfw' = Take(mfw, ListShown)
         /\ Show(4, Out("list", Take(mfw, ListShown), <<>>, EmptyTable))
         /\ Complete(4)
         /\ UNCHANGED <<raised, namespace, directory, corpus, features, dtm,
                        model, vis, mallet_proc>>)

\* In [4], last line: mfw[:10]
Cell4_show ==
    Stmt(4, 2, {"mfw"},
         /\ Show(4, Out("list", Take(mfw, ListShown), <<>>, EmptyTable))
         /\ Complete(4)
         /\ UNCHANGED <<raised, namespace, values, mallet_proc>>)

\* In [5]: corpus.hapax[:10]
Cell5_show ==
    Stmt(5, 1, {"corpus"},
         /\ Show(5, Out("list", Take(Hapax(corpus), ListShown), <<>>, EmptyTable))
         /\ Complete(5)
         /\ UNCHANGED <<raised, namespace, values, mallet_proc>>)

\* Changed: features = mfw, the hapax legomena are left out.
Cell6_features_mfw_only ==
    Stmt(6, 1, {"mfw", "corpus"},
         /\ features' = mfw
         /\ namespace' = namespace \cup {"features"}
         /\ Advance(6, 2)
         /\ UNCHANGED <<raised, outputs, directory, corpus, mfw, dtm, model, vis,
                        mallet_proc>>)

\* In [6], first line: features = mfw + corpus.hapax
Cell6_features ==
    Stmt(6, 1, {"mfw", "corpus"},
         /\ features' = mfw \o Hapax(corpus)
         /\ namespace' = namespace \cup {"features"}
         /\ Advance(6, 2)
         /\ UNCHANGED <<raised, outputs, directory, corpus, mfw, dtm, model, vis,
                        mallet_proc>>)

\* In [6], last line:
\* print(f"{len(features)} types will be removed from the corpus.")
Cell6_print ==
    Stmt(6, 2, {"features"},
         /\ Show(6, Out("types will be removed", <<>>, <<Len(features)>>,
                        EmptyTable))
         /\ Complete(6)
         /\ UNCHANGED <<raised, namespace, values, mallet_proc>>)

\* Changed: the matrix is bound to another name, matrix = corpus.drop(...).
Cell7_dtm_renamed ==
    Stmt(7, 1, {"corpus", "features"},
         /\ dtm' = AsTypeInt(FillNa(Drop(corpus.dtm, features)))
         /\ namespace' = namespace \cup {"matrix"}
         /\ Advance(7, 2)
         /\ UNCHANGED <<raised, outputs, directory, corpus, mfw, features, model,
                        vis, mallet_proc>>)

\* Changed: dtm = corpus.drop(corpus.dtm, features), without .fillna(0).
Cell7_dtm_no_fillna ==
    Stmt(7, 1, {"corpus", "features"},
         /\ dtm' = Drop(corpus.dtm, features)
         /\ namespace' = namespace \cup {"dtm"}
         /\ Advance(7, 2)
         /\ UNCHANGED <<raised, outputs, directory, corpus, mfw, features, model,
                        vis, mallet_proc>>)

\* Changed: the result is also stored back, corpus.dtm = dtm.
Cell7_dtm_inplace ==
    Stmt(7, 1, {"corpus", "features"},
         /\ dtm' = AsTypeInt(FillNa(Drop(corpus.dtm, features)))
         /\ corpus' = [corpus EXCEPT !.dtm = dtm']
         /\ namespace' = namespace \cup {"dtm"}
         /\ Advance(7, 2)
         /\ UNCHANGED <<raised, outputs, directory, mfw, features, model,
                        vis, mallet_proc>>)

\* In [7], first line:
\* dtm = corpus.drop(corpus.dtm, features).fillna(0).astype(int)
Cell7_dtm ==
    Stmt(7, 1, {"corpus", "features"},
         /\ dtm' = AsTypeInt(FillNa(Drop(corpus.dtm, features)))
         /\ namespace' = namespace \cup {"dtm"}
         /\ Advance(7, 2)
         /\ UNCHANGED <<raised, outputs, directory, corpus, mfw, features, model,
                        vis, mallet_proc>>)

\* In [7], last line: dtm.iloc[:, :5]
Cell7_show ==
    Stmt(7, 2, {"dtm"},
         /\ Show(7, Out("table", <<>>, <<>>, ILocCols(dtm, ColsShown)))
         /\ Complete(7)
         /\ UNCHANGED <<raised, namespace, values, mallet_proc>>)

\* Changed: the options of the introduction's example, num_iterations=100.
Cell8_kwargs_example ==
    [num_topics |-> NumTopics, num_iterations |-> 100,
     mallet |-> "mallet-2.0.8/bin/mallet"]

\* The keyword arguments of In [8].
Cell8_kwargs ==
    [num_topics |-> NumTopics, num_iterations |-> NumIterations,
     mallet |-> "mallet-2.0.8/bin/mallet"]

\* In [8], first lines: model = dariah.core.LDA(num_topics=10,
\* num_iterations=1000, mallet="mallet-2.0.8/bin/mallet").  Whether a missing
\* executable is noticed here or only by fit is the library's choice.
Cell8_model ==
    Stmt(8, 1, {"dariah"},
         /\ \E checked \in BOOLEAN:
              IF checked /\ Cell8_kwargs.mallet # "" /\ ~env.mallet_exe
              THEN OnRaise(8, MissingMallet)
              ELSE /\ model' = LDA(Cell8_kwargs)
                   /\ namespace' = namespace \cup {"model"}
                   /\ Advance(8, 2)
                   /\ UNCHANGED <<raised, outputs, directory, corpus, mfw,
                                  features, dtm, vis>>
         /\ UNCHANGED mallet_proc)

\* In [8], last line: model
Cell8_show ==
    Stmt(8, 2, {"model"},
         /\ Show(8, Out("Model: LDA", <<>>, Repr(model), EmptyTable))
         /\ Complete(8)
         /\ UNCHANGED <<raised, namespace, values, mallet_proc>>)

\* In [9]: model.fit(dtm), the call: with a MALLET path the library starts
\* a MALLET process, without one it samples in the kernel's own process.
Cell9_fit_call ==
    Stmt(9, 1, {"model", "dtm"},
         IF model.mallet # "" /\ ~env.mallet_exe
         THEN OnRaise(9, MissingMallet) /\ UNCHANGED mallet_proc
         ELSE /\ mallet_proc' = (model.mallet # "")
              /\ Advance(9, 2)
              /\ UNCHANGED <<raised, outputs, namespace, values>>)

\* Changed: model.fit(corpus.dtm), the matrix with every column.
Cell9_fit_return_whole ==
    Stmt(9, 2, {"model", "dtm"},
         /\ mallet_proc' = FALSE
         /\ \E refused \in BOOLEAN, seed \in 0..(Seeds - 1):
              IF refused /\ corpus.dtm.columns = <<>>
              THEN OnRaise(9, MalletFailed)
              ELSE /\ model' = [model EXCEPT
                          !.fitted = TRUE,
                          !.vocabulary = corpus.dtm.columns,
                          !.topics = Topics(model.num_topics,
                                            corpus.dtm.columns, seed)]
                   /\ Complete(9)
                   /\ UNCHANGED <<raised, outputs, namespace, directory, corpus,
                                  mfw, features, dtm, vis>>)

\* In [9]: model.fit(dtm), the return: the process has ended and the model
\* is fitted to the columns of dtm.  A matrix without columns is malformed
\* input, which the sampler may refuse.
Cell9_fit_return ==
    Stmt(9, 2, {"model", "dtm"},
         /\ mallet_proc' = FALSE
         /\ \E refused \in BOOLEAN, seed \in 0..(Seeds - 1):
              IF refused /\ dtm.columns = <<>>
              THEN OnRaise(9, MalletFailed)
              ELSE /\ model' = [model EXCEPT
                          !.fitted = TRUE,
                          !.vocabulary = dtm.columns,
                          !.topics = Topics(model.num_topics, dtm.columns,
                                            seed)]
                   /\ Complete(9)
                   /\ UNCHANGED <<raised, outputs, namespace, directory, corpus,
                                  mfw, features, dtm, vis>>)

\* In [10]: model.topics.iloc[:, :5]: one row per topic, the first five
\* words of each.
Cell10_show ==
    Stmt(10, 1, {"model"},
         IF ~model.fitted
         THEN /\ Fail(10, AttributeError)
              /\ UNCHANGED <<raised, outputs, namespace, values, mallet_proc>>
         ELSE /\ Show(10, Out("topics", <<>>, <<>>,
                              ILocCols(model.topics, ColsShown)))
              /\ Complete(10)
              /\ UNCHANGED <<raised, namespace, values, mallet_proc>>)

\* In [11], first line: vis = dariah.core.Vis(model)
Cell11_vis ==
    Stmt(11, 1, {"dariah", "model"},
         /\ vis' = Vis(model)
         /\ namespace' = namespace \cup {"vis"}
         /\ Advance(11, 2)
         /\ UNCHANGED <<raised, outputs, directory, corpus, mfw, features, dtm,
                        model, mallet_proc>>)

\* In [11], last line: vis
Cell11_show ==
    Stmt(11, 2, {"vis"},
         /\ Show(11, Out("Visualization: LDA", <<>>, Repr(vis.model), EmptyTable))
         /\ Complete(11)
         /\ UNCHANGED <<raised, namespace, values, mallet_proc>>)

\* In [12], first line: %matplotlib inline
Cell12_magic ==
    Stmt(12, 1, {},
         /\ Advance(12, 2)
         /\ UNCHANGED <<raised, outputs, namespace, values, mallet_proc>>)

\* In [12], last line: vis.topic_document(), the heatmap of the topics'
\* shares in the documents.
Cell12_plot ==
    Stmt(12, 2, {"vis"},
         /\ outputs' = [outputs EXCEPT ![12] =
                @ \o <<Out("AxesSubplot", <<>>, <<>>, EmptyTable),
                       Out("Figure", <<>>, <<vis.model.num_topics>>, EmptyTable)>>]
         /\ Complete(12)
         /\ UNCHANGED <<raised, namespace, values, mallet_proc>>)

Next ==
    \/ Execute
    \/ Cell1_import
    \/ Cell2_directory
    \/ Cell3_corpus
    \/ Cell4_mfw
    \/ Cell4_show
    \/ Cell5_show
    \/ Cell6_features
    \/ Cell6_print
    \/ Cell7_dtm
    \/ Cell7_show
    \/ Cell8_model
    \/ Cell8_show
    \/ Cell9_fit_call
    \/ Cell9_fit_return
    \/ Cell10_show
    \/ Cell11_vis
    \/ Cell11_show
    \/ Cell12_magic
    \/ Cell12_plot

Spec == Init /\ [][Next]_vars

\* ------------------------------------------------------------------ claims

Started(c) == execution_count[c] > 0
Finished(c) == Started(c) /\ c \notin running /\ error.cell # c

\* The stage of each cell: 1 load corpus (In [1]-[3]), 2 filter vocabulary
\* (In [4]-[6]), 3 build matrix (In [7]), 4 fit model (In [8]-[10]),
\* 5 visualize (In [11]-[12]).
Stage(c) ==
    IF c <= 3 THEN 1 ELSE IF c <= 6 THEN 2 ELSE IF c = 7 THEN 3
    ELSE IF c <= 10 THEN 4 ELSE 5

\* C1: the stages run in one fixed order (load corpus, filter vocabulary,
\* build matrix, fit model, visualize): a cell has started only if every
\* cell before it, and so every earlier stage, has completed; and every
\* variable a stage reads (directory, corpus, mfw, features, dtm, model,
\* vis) is bound when the stage starts, so no read ever raises NameError.
C1_StageOrder ==
    /\ \A c \in Cells: Started(c) =>
          /\ \A b \in 1..(c - 1): Finished(b)
          /\ \A b \in Cells: Stage(b) < Stage(c) => Finished(b)
    /\ error.exc # NameError
    /\ Started(3) => "directory" \in namespace
    /\ Started(4) => "corpus" \in namespace
    /\ Started(6) => {"mfw", "corpus"} \subseteq namespace
    /\ Started(7) => {"corpus", "features"} \subseteq namespace
    /\ Finished(7) => "dtm" \in namespace
    /\ Started(9) => {"model", "dtm"} \subseteq namespace
    /\ Started(11) => "model" \in namespace
    /\ Started(12) => "vis" \in namespace

\* C1: the last stage has run to its end with every variable bound.
C1_Witness ==
    /\ Finished(12)
    /\ {"directory", "corpus", "mfw", "features", "dtm", "model", "vis"}
          \subseteq namespace

\* C2: the dtm passed to model.fit has no column for a word of
\* mfw + corpus.hapax, keeps every other column of corpus.dtm, and is the
\* matrix the model is fitted to.
C2_FeaturesDropped ==
    Started(9) =>
        LET selected == Range(mfw) \cup Range(Hapax(corpus)) IN
        /\ Columns(dtm) \cap selected = {}
        /\ Columns(corpus.dtm) \ selected \subseteq Columns(dtm)
        /\ model.fitted => model.vocabulary = dtm.columns

\* C2: a model fitted to a matrix that kept columns, from a corpus with
\* stop words and hapax legomena.
C2_Witness ==
    /\ model.fitted
    /\ Columns(dtm) # {}
    /\ Hapax(corpus) # <<>>
    /\ Len(mfw) = MfwN

\* C3: the number printed by In [6] as "N types will be removed" is the
\* number of columns corpus.drop removes: the columns of corpus.dtm minus
\* the columns of dtm.
C3_PrintedCountIsRemoved ==
    ("dtm" \in namespace /\ outputs[6] # <<>>) =>
        outputs[6][1].nums[1] = Len(corpus.dtm.columns) - Len(dtm.columns)

\* C5: at most one cell is executing at any time, a cell that is not
\* executing is at no statement, and the cells get the execution counts
\* 1 to 12 in document order; so while a cell (model.fit above all) is
\* under way no other cell runs.
C5_Synchronous ==
    /\ Cardinality(running) <= 1
    /\ \A c \in Cells: (c \in running) <=> (stmt[c] > 0)
    /\ \A c \in Cells: Started(c) => execution_count[c] = c
    /\ \A b, c \in Cells:
          (b < c /\ Started(c)) =>
              (Started(b) /\ execution_count[b] < execution_count[c])
    /\ counter = Cardinality({c \in Cells: Started(c)})
    /\ \A c \in Cells: stmt[c] > 1 => running = {c}

\* C5: the last cell is executing, alone, with execution count 12.
C5_Witness == running = {12} /\ execution_count[12] = 12 /\ stmt[12] = 2

\* C6: a failure of a library call is the error of the cell that made the
\* call, unchanged; the run stops there; the cell shows nothing and the
\* variable it would have bound (corpus, model) is not bound, and a model
\* whose fit failed is not fitted.  A missing or malformed corpus fails
\* In [3], a missing MALLET executable fails In [8] or In [9].
C6_FailureSurfaced ==
    /\ raised # <<>> => error # NoError
    /\ error # NoError =>
          /\ raised = <<error.exc>>
          /\ queue = <<>> /\ running = {}
          /\ outputs[error.cell] = <<>>
          /\ \A c \in Cells: c > error.cell => ~Started(c)
    /\ error.cell = 3 => "corpus" \notin namespace
    /\ error.cell = 8 => "model" \notin namespace
    /\ error.cell = 9 => ~model.fitted
    /\ (env.corpus_dir = "missing" /\ Started(3) /\ 3 \notin running) =>
          error = [cell |-> 3, exc |-> MissingCorpus]
    /\ (env.corpus_dir = "malformed" /\ Started(3) /\ 3 \notin running) =>
          error = [cell |-> 3, exc |-> MalformedInput]
    /\ (~env.mallet_exe /\ Started(8) /\ running = {} /\ queue = <<>>) =>
          (error.cell \in {8, 9} /\ error.exc = MissingMallet)

\* C6: model.fit failed for want of the MALLET executable.
C6_Witness ==
    /\ error = [cell |-> 9, exc |-> MissingMallet]
    /\ "model" \in namespace

\* C7: the model built by In [8] has, and shows, 10 topics, 1000
\* iterations, alpha 0.1 and eta 0.01 (in thousandths: 100 and 10), and
\* the visualization of In [11] shows the same four values.
C7_OptionsVerbatim ==
    /\ "model" \in namespace =>
          /\ model.num_topics = 10
          /\ model.num_iterations = 1000
          /\ model.alpha = 100
          /\ model.eta = 10
    /\ outputs[8] # <<>> => outputs[8][1].nums = <<10, 1000, 100, 10>>
    /\ outputs[11] # <<>> =>
          /\ outputs[11][1].nums = outputs[8][1].nums
          /\ outputs[11][1].nums = Repr(model)

\* C7: the visualization has been shown.
C7_Witness == outputs[11] # <<>> /\ outputs[8] # <<>>

\* What the variables hold when nothing was cut for display.
C9_NothingTruncated ==
    /\ "mfw" \in namespace => Len(mfw) = Min(50, Len(corpus.dtm.columns))
    /\ "features" \in namespace =>
          Len(features) = Len(mfw) + Len(Hapax(corpus))
    /\ "dtm" \in namespace =>
          Columns(dtm) = Columns(corpus.dtm) \ Range(features)
    /\ model.fitted => model.vocabulary = dtm.columns
    /\ "vis" \in namespace => vis.model = model

\* C9: a step that shows something (mfw[:10], corpus.hapax[:10],
\* dtm.iloc[:, :5], model, model.topics.iloc[:, :5], vis, the plot) leaves
\* corpus, mfw, features, dtm, model and the namespace as they were, and
\* the later steps work on the whole of mfw, corpus.hapax and dtm.
C9_DisplayOnly ==
    /\ [][outputs' # outputs => UNCHANGED <<values, namespace>>]_vars
    /\ []C9_NothingTruncated

\* C9: every display has been made of a list or table longer than the
\* part shown.
C9_Witness ==
    /\ outputs[10] # <<>>
    /\ Len(mfw) > ListShown
    /\ Len(Hapax(corpus)) > ListShown
    /\ Len(dtm.columns) > ColsShown
    /\ Len(outputs[4][1].words) = ListShown
    /\ Len(outputs[5][1].words) = ListShown
    /\ Len(outputs[7][1].table.columns) = ColsShown

\* C11: every entry of dtm is a whole number >= 0 and none is missing; an
\* entry missing in corpus.dtm (the word is absent from the document) is 0
\* in dtm; dtm has one row per document of the corpus.
C11_CountsComplete ==
    "dtm" \in namespace =>
        /\ dtm.index = Docs
        /\ dtm.index = corpus.dtm.index
        /\ DOMAIN dtm.data = dtm.index
        /\ \A d \in dtm.index:
              /\ DOMAIN dtm.data[d] = Columns(dtm)
              /\ \A w \in Columns(dtm):
                    /\ dtm.data[d][w] # NaN
                    /\ dtm.data[d][w] \in Nat
                    /\ corpus.dtm.data[d][w] = NaN => dtm.data[d][w] = 0
                    /\ env.counts[d][w] = 0 => dtm.data[d][w] = 0

\* C11: dtm has a column whose entry was missing in corpus.dtm for one
\* document and is a count for another.
C11_Witness ==
    /\ "dtm" \in namespace
    /\ \E w \in Columns(dtm): \E d, e \in dtm.index:
          /\ corpus.dtm.data[d][w] = NaN
          /\ dtm.data[d][w] = 0
          /\ dtm.data[e][w] > 0

\* C12: every count of a column left in dtm is the count corpus.dtm has
\* for that document and word (a missing value read as 0), and corpus.dtm
\* is after corpus.drop what it was before: the table of the corpus read.
C12_CountsKept ==
    /\ "dtm" \in namespace =>
          /\ Columns(dtm) \subseteq Columns(corpus.dtm)
          /\ \A d \in dtm.index: \A w \in Columns(dtm):
                /\ dtm.data[d][w] = Count(corpus.dtm, d, w)
                /\ dtm.data[d][w] = env.counts[d][w]
    /\ "corpus" \in namespace => corpus.dtm = CorpusDtm(env.counts)

\* C12: columns were dropped and columns with counts are left.
C12_Witness ==
    /\ Finished(7)
    /\ Len(dtm.columns) > 0
    /\ Len(dtm.columns) < Len(corpus.dtm.columns)
    /\ \E w \in Columns(dtm): \A d \in dtm.index: dtm.data[d][w] > 0

\* The words listed in a table of topics.
TopicWords(t) == {t.data[i][c]: i \in t.index, c \in Columns(t)}

\* C14: model.topics is read (In [10]) only after model.fit(dtm) has
\* completed; it then has num_topics rows, topic0 to topic(num_topics-1),
\* the words of each in columns word0, word1, ...; every word listed is a
\* column of the fitted dtm and none is a word of features, a stop word of
\* mfw or a hapax legomenon.
C14_TopicsAfterFit ==
    /\ Started(10) => (Finished(9) /\ model.fitted)
    /\ error.exc # AttributeError
    /\ model.fitted =>
          /\ model.num_topics > 0
          /\ model.topics.index = 0..(model.num_topics - 1)
          /\ Cardinality(model.topics.index) = model.num_topics
          /\ \A j \in 1..Len(model.topics.columns):
                model.topics.columns[j] = j - 1
          /\ TopicWords(model.topics) \subseteq Columns(dtm)
          /\ TopicWords(model.topics) \cap Range(features) = {}
          /\ TopicWords(model.topics)
                \cap (Range(mfw) \cup Range(Hapax(corpus))) = {}
    /\ outputs[10] # <<>> =>
          /\ outputs[10][1].table = ILocCols(model.topics, ColsShown)
          /\ TopicWords(outputs[10][1].table) \subseteq Columns(dtm)

\* C14: the topics were shown, cut to five of more words, for a corpus
\* from which stop words and hapax legomena were dropped.
C14_Witness ==
    /\ outputs[10] # <<>>
    /\ Len(model.topics.columns) > ColsShown
    /\ Len(outputs[10][1].table.columns) = ColsShown
    /\ TopicWords(outputs[10][1].table) # {}
    /\ Len(corpus.dtm.columns) > Len(dtm.columns)

====
